---- MODULE Spec2Model ----
(***************************************************************************)
(* A model of s6i_task: the type-indexed resource registry (Resources),    *)
(* the read/write access sets (Permission, is_conflict, make_permission)   *)
(* and the task bindings (ITaskFunc / TaskFunc) that resolve their         *)
(* parameters from a registry.                                             *)
(***************************************************************************)
EXTENDS Integers, Sequences, FiniteSets, TLC

\* ---------------------------------------------------------------- bounds
\* Number of distinct resource types of the program under analysis.
NumTypes == 2
\* Longest parameter list of a bound callable.
MaxParams == 2

\* Number of registrations (set_ptr, set and emplace calls) and of exec calls
\* made one after the other that the program makes.
MaxOps == 3

\* ------------------------------------------------------ program constants
\* Permission::BIT_N, the size of both bit sets.
BIT_N == 128

\* The value the objects of the program are constructed with:
\* resources.emplace<TestType1>(42).
InitialValue == 42

Types == 1..NumTypes
\* The types of a program that has one type more than the bit sets have bits.
ManyTypes == 1..(BIT_N + 1)
\* The two Permission objects built by hand: the operands of is_conflict.
PermIds == {"lhs", "rhs"}
\* The task bindings the program creates with make_task_func.
TaskIds == {"task1", "task2", "task3"}
\* The Resources objects of the program.
RegIds == {"r1", "r2"}
\* The caller-owned objects of each type that can be lent with set_ptr.
ExtIds == {"a", "b"}

VARIABLES
  perm_index,      \* the static counter inside Permission::gen_type_index
  perm_ms_index,   \* Permission::TypeIndex<T>::ms_index, per type T
  perm_fault,      \* TRUE once a capacity assertion of Permission failed
  perms,           \* the Permission objects built by hand
  tasks,           \* the task bindings (ITaskFunc objects), per TaskIds
  running,         \* per binding: the registry its exec call runs on, or Idle
  held,            \* per binding: the arguments its callable was invoked with
  m_value,         \* the value member of every object, by address
  calls,           \* history: the exec calls made one after the other
  process,         \* "alive", or how the process ended
  failed,          \* history: the last set or emplace that got no memory
  threads,         \* per thread: where it is in its first registration
  ret,             \* the last query and what it returned
  res_index,       \* the static counter inside Resources::gen_type_index
  res_ms_index,    \* Resources::TypeIndex<T>::ms_index, per type T
  regs,            \* the Resources objects, per RegIds
  n_values,        \* how many Resource<T> objects were allocated so far
  n_ops,           \* how many registrations and exec calls were made so far
  destroyed,       \* the Resource<T> destructor calls so far, in order
  last_reg,        \* history: the last pointer registered per registry and type
  built,           \* history: the values a registry constructed, or Mixed
  moved_from,      \* history: the registry was moved out of, nothing since
  moved_in         \* history: what a move construction brought in, nothing since

permVars == <<perm_index, perm_ms_index, perm_fault, perms, tasks>>

objVars == <<m_value, calls, process, failed, threads, ret>>

execVars == <<running, held, objVars>>

resVars == <<res_index, res_ms_index, regs, n_values, n_ops, destroyed,
             last_reg, built, moved_from, moved_in>>

vars == <<permVars, execVars, resVars>>

\* "no pointer recorded" in the history of registrations
None == <<"none", 0, 0>>

\* "no registry": the binding is not running
Idle == "idle"

\* "took part in a move or a swap": its values are not only its own
Mixed == [mixed |-> TRUE, vals |-> <<>>]

\* "no move construction recorded" in the history of a registry
NoMove == [from |-> "none", vals |-> <<>>, ptrs |-> <<>>]

\* ------------------------------------------------------------ Permission

\* A default-constructed Permission: both bit sets empty.  A bit set is the
\* set of the positions whose bit is 1.
Permission == [m_read_permission |-> {}, m_write_permission |-> {}]

\* The process-wide state a Permission operation reads and writes, threaded
\* through a chain of calls: the object, the per-type indexes, the counter.
PermCtx(p, ms, index, ok) == [p |-> p, ms |-> ms, index |-> index, ok |-> ok]

Permission_gen_type_index_stuck(index) == 1

\* static std::size_t index = 0; return ++index;
Permission_gen_type_index(index) == index + 1

\* One set_xxx_permission<T>() call: look T's index up, allocate it when it
\* is still 0 (checking it against BIT_N), then set the bit.
set_permission_inclusive(c, T, field) ==
  LET old == c.ms[T]
      fresh == old = 0
      index == IF fresh THEN Permission_gen_type_index(c.index) ELSE old
      ms1 == IF fresh THEN [c.ms EXCEPT ![T] = index] ELSE c.ms
      index1 == IF fresh THEN index ELSE c.index
  IN IF ~c.ok
     THEN c
     ELSE IF index <= BIT_N
     THEN [p |-> [c.p EXCEPT ![field] = @ \cup {index}],
           ms |-> ms1, index |-> index1, ok |-> TRUE]
     ELSE [p |-> c.p, ms |-> ms1, index |-> index1, ok |-> FALSE]

set_permission(c, T, field) ==
  LET old == c.ms[T]
      fresh == old = 0
      index == IF fresh THEN Permission_gen_type_index(c.index) ELSE old
      ms1 == IF fresh THEN [c.ms EXCEPT ![T] = index] ELSE c.ms
      index1 == IF fresh THEN index ELSE c.index
  IN IF ~c.ok
     THEN c
     ELSE IF index < BIT_N
     THEN [p |-> [c.p EXCEPT ![field] = @ \cup {index}],
           ms |-> ms1, index |-> index1, ok |-> TRUE]
     ELSE [p |-> c.p, ms |-> ms1, index |-> index1, ok |-> FALSE]

set_read_permission(c, T) == set_permission(c, T, "m_read_permission")

set_write_permission(c, T) == set_permission(c, T, "m_write_permission")

\* index == 0 ? false : m_read_permission.test(index)
test_read_permission(p, ms, T) ==
  IF ms[T] = 0 THEN FALSE ELSE ms[T] \in p.m_read_permission

test_write_permission(p, ms, T) ==
  IF ms[T] = 0 THEN FALSE ELSE ms[T] \in p.m_write_permission

\* std::bitset operator& and any()
bit_and(a, b) == a \cap b

any(bits) == bits # {}

is_conflict_no_rw(lhs, rhs) ==
  \/ any(bit_and(lhs.m_write_permission, rhs.m_read_permission))
  \/ any(bit_and(lhs.m_write_permission, rhs.m_write_permission))

is_conflict_no_ww(lhs, rhs) ==
  \/ any(bit_and(lhs.m_read_permission, rhs.m_write_permission))
  \/ any(bit_and(lhs.m_write_permission, rhs.m_read_permission))

is_conflict(lhs, rhs) ==
  \/ any(bit_and(lhs.m_read_permission, rhs.m_write_permission))
  \/ any(bit_and(lhs.m_write_permission, rhs.m_read_permission))
  \/ any(bit_and(lhs.m_write_permission, rhs.m_write_permission))

\* -------------------------------------------------------- ResourceTraits

\* A parameter of a bound callable: "T*" (const = FALSE) or "const T*".
Param(T, const) == [type |-> T, const |-> const]

Params == {Param(T, c) : T \in Types, c \in BOOLEAN}

\* Every parameter list of at most MaxParams parameters.
ParamLists == UNION {[1..n -> Params] : n \in 0..MaxParams}

read_permission_const_only(a) == IF a.const THEN <<a.type>> ELSE <<>>

\* ResourceTraits<T*>::read_permission and ResourceTraits<const T*>::
\* read_permission are both TypeList<T>.
read_permission(a) == <<a.type>>

write_permission_const_too(a) == <<a.type>>

\* ResourceTraits<T*>::write_permission is TypeList<T>,
\* ResourceTraits<const T*>::write_permission is TypeList<>.
write_permission(a) == IF a.const THEN <<>> ELSE <<a.type>>

\* detail::set_read_permission(permission, TypeList<Ts...>): the fold
\* (permission->set_read_permission<Ts>(), ...), left to right.
RECURSIVE detail_set_read_permission(_, _)
detail_set_read_permission(c, type_list) ==
  IF type_list = <<>> THEN c
  ELSE detail_set_read_permission(set_read_permission(c, Head(type_list)),
                                  Tail(type_list))

RECURSIVE detail_set_write_permission(_, _)
detail_set_write_permission(c, type_list) ==
  IF type_list = <<>> THEN c
  ELSE detail_set_write_permission(set_write_permission(c, Head(type_list)),
                                   Tail(type_list))

\* The first fold of make_permission: the read lists of every parameter.
RECURSIVE mark_reads(_, _)
mark_reads(c, args) ==
  IF args = <<>> THEN c
  ELSE mark_reads(detail_set_read_permission(c, read_permission(Head(args))),
                  Tail(args))

\* The second fold of make_permission: the write lists of every parameter.
RECURSIVE mark_writes(_, _)
mark_writes(c, args) ==
  IF args = <<>> THEN c
  ELSE mark_writes(detail_set_write_permission(c, write_permission(Head(args))),
                   Tail(args))

\* make_permission<Ts...>(): a fresh Permission, all reads, then all writes.
make_permission(args, ms, index) ==
  mark_writes(mark_reads(PermCtx(Permission, ms, index, TRUE), args), args)

\* ------------------------------------------------------------- Resources

\* nullptr
NULL == <<"null", 0, 0>>

\* The k-th caller-owned object of type T (what set_ptr borrows).
Ext(T, k) == <<"ext", T, k>>

\* The id-th Resource<T> the program allocated: make_unique<Resource<T>>.
Resource(T, id) == [type |-> T, id |-> id]

\* &resource->m_value
AddrOf(resource) == <<"own", resource.type, resource.id>>

\* Resources(allocator): both vectors empty.  life tells whether the object
\* is not constructed yet ("unborn"), constructed ("live") or destroyed.
Unborn == [life |-> "unborn", m_pointers |-> <<>>, m_resources |-> <<>>]

Resources == [life |-> "live", m_pointers |-> <<>>, m_resources |-> <<>>]

\* static std::size_t index = 0; return ++index;
Resources_gen_type_index_stuck(index) == 1

Resources_gen_type_index(index) == index + 1

\* m_pointers[index]; the vector's element 0 is the sequence's element 1.
At(m_pointers, index) == m_pointers[index + 1]

resize_uninitialised(m_pointers, n) ==
  IF n <= Len(m_pointers)
  THEN SubSeq(m_pointers, 1, n)
  ELSE m_pointers \o [i \in 1..(n - Len(m_pointers)) |-> <<"garbage", 0, 0>>]

\* std::vector<void*>::resize(n): value-initialised (null) new elements.
resize(m_pointers, n) ==
  IF n <= Len(m_pointers)
  THEN SubSeq(m_pointers, 1, n)
  ELSE m_pointers \o [i \in 1..(n - Len(m_pointers)) |-> NULL]

\* Resources::get_ptr<T>()
get_ptr(R, ms, T) ==
  LET index == ms[T]
  IN IF index = 0 \/ index >= Len(R.m_pointers)
     THEN NULL
     ELSE At(R.m_pointers, index)

\* The state a registration reads and writes: the registry, the per-type
\* indexes and the counter of Resources::gen_type_index.
ResCtx(R, ms, index) == [R |-> R, ms |-> ms, index |-> index]

set_ptr_keep_first(c, T, ptr) ==
  LET fresh == c.ms[T] = 0
      index == IF fresh THEN Resources_gen_type_index(c.index) ELSE c.ms[T]
      grown == IF index >= Len(c.R.m_pointers)
               THEN resize(c.R.m_pointers, index + 1)
               ELSE c.R.m_pointers
  IN [R |-> [c.R EXCEPT !.m_pointers =
               IF grown[index + 1] = NULL
               THEN [grown EXCEPT ![index + 1] = ptr] ELSE grown],
      ms |-> IF fresh THEN [c.ms EXCEPT ![T] = index] ELSE c.ms,
      index |-> IF fresh THEN index ELSE c.index]

\* Resources::set_ptr<T>(ptr)
set_ptr(c, T, ptr) ==
  LET fresh == c.ms[T] = 0
      index == IF fresh THEN Resources_gen_type_index(c.index) ELSE c.ms[T]
      grown == IF index >= Len(c.R.m_pointers)
               THEN resize(c.R.m_pointers, index + 1)
               ELSE c.R.m_pointers
  IN [R |-> [c.R EXCEPT !.m_pointers = [grown EXCEPT ![index + 1] = ptr]],
      ms |-> IF fresh THEN [c.ms EXCEPT ![T] = index] ELSE c.ms,
      index |-> IF fresh THEN index ELSE c.index]

emplace_replacing(c, T, id) ==
  LET resource == Resource(T, id)
      ptr == AddrOf(resource)
      kept == SelectSeq(c.R.m_resources, LAMBDA x : x.type # T)
  IN set_ptr([c EXCEPT !.R.m_resources = Append(kept, resource)], T, ptr)

\* Resources::emplace<T>(args...): allocate, append to m_resources, publish.
emplace(c, T, id) ==
  LET resource == Resource(T, id)
      ptr == AddrOf(resource)
  IN set_ptr([c EXCEPT !.R.m_resources = Append(@, resource)], T, ptr)

\* Resources::set<T>(value): the same steps as emplace, the value moved in.
set(c, T, id) ==
  LET resource == Resource(T, id)
      ptr == AddrOf(resource)
  IN set_ptr([c EXCEPT !.R.m_resources = Append(@, resource)], T, ptr)

\* An empty UniquePtr<Resource<T>>: what make_unique gives without memory.
NoResource(T) == Resource(T, 0)

\* &resource->m_value for an empty resource: not the address of an object.
NoAddr(T) == <<"bad", T, 0>>

\* "no failed allocation recorded"
NoFailure ==
  [on |-> "none", at |-> 0, before |-> Unborn, end |-> "none", ret |-> NULL]

\* set<T> and emplace<T> when make_unique returns an empty pointer: with
\* assertions, assert(resource) ends the process; without, the empty
\* pointer is appended to m_resources and &resource->m_value is published.
\* The set of [c, end, ret]: the state left, how the call ended and what it
\* returned.
no_memory(c, T) ==
  { [c |-> c, end |-> "aborted", ret |-> NULL],
    [c |-> set_ptr([c EXCEPT !.R.m_resources = Append(@, NoResource(T))],
                   T, NoAddr(T)),
     end |-> "returned", ret |-> NoAddr(T)] }

\* The destructor calls of ~Resources(): pop_back until m_resources is empty.
RECURSIVE pop_all_front_first(_)
pop_all_front_first(m_resources) ==
  IF m_resources = <<>> THEN <<>>
  ELSE <<Head(m_resources)>> \o pop_all_front_first(Tail(m_resources))

pop_all_once(m_resources) ==
  IF m_resources = <<>> THEN <<>>
  ELSE <<m_resources[Len(m_resources)]>>

RECURSIVE pop_all(_)
pop_all(m_resources) ==
  IF m_resources = <<>> THEN <<>>
  ELSE <<m_resources[Len(m_resources)]>> \o
       pop_all(SubSeq(m_resources, 1, Len(m_resources) - 1))

\* The entries ~Resources() of the object `by` adds to the destructor log.
Destructed(m_resources, by) ==
  LET order == pop_all(m_resources)
  IN [i \in 1..Len(order) |-> [val |-> order[i], by |-> by]]

\* Resources(Resources&& other): the members are move-constructed; a
\* move-constructed std::vector leaves its source empty.
MovedTo_resources_only(other) ==
  [life |-> "live", m_pointers |-> <<>>, m_resources |-> other.m_resources]

MovedTo(other) ==
  [life |-> "live", m_pointers |-> other.m_pointers,
   m_resources |-> other.m_resources]

MovedFrom_copied(other) == other

MovedFrom_pointers_kept(other) ==
  [life |-> other.life, m_pointers |-> other.m_pointers, m_resources |-> <<>>]

MovedFrom(other) ==
  [life |-> other.life, m_pointers |-> <<>>, m_resources |-> <<>>]

\* -------------------------------------------------------------- TaskFunc

\* A binding variable that holds no TaskFunc yet.
NoTask ==
  [made |-> FALSE, args |-> <<>>, m_permission |-> Permission,
   m_local_resources |-> Unborn]

\* TaskFunc<Args...>::TaskFunc: ITaskFunc(allocator, make_permission<Args...>())
\* with m_permission(permission) and m_local_resources(allocator).
TaskFunc(args, permission) ==
  [made |-> TRUE, args |-> args, m_permission |-> permission,
   m_local_resources |-> Resources]

\* ResourceTraits<T*>::get_ptr and ResourceTraits<const T*>::get_ptr: both
\* return resources->get_ptr<T>() and ignore local_resources.
ResourceTraits_get_ptr_local(a, resources, local_resources, ms) ==
  get_ptr(local_resources, ms, a.type)

ResourceTraits_get_ptr(a, resources, local_resources, ms) ==
  get_ptr(resources, ms, a.type)

\* TaskFunc::on_exec: the arguments mp_func is invoked with,
\* ResourceTraits<Args>::get_ptr(resources, local_resources)...
on_exec(args, resources, local_resources, ms) ==
  [i \in DOMAIN args |->
     ResourceTraits_get_ptr(args[i], resources, local_resources, ms)]

permission_shared(b) ==
  [m_read_permission |->
     UNION {tasks[o].m_permission.m_read_permission : o \in TaskIds},
   m_write_permission |->
     UNION {tasks[o].m_permission.m_write_permission : o \in TaskIds}]

\* ITaskFunc::permission()
permission(b) == tasks[b].m_permission

\* The objects of the program: the values the registries construct and the
\* caller-owned ones.
Objects ==
  {AddrOf(Resource(T, id)) : T \in Types, id \in 1..MaxOps} \cup
  {Ext(T, k) : T \in Types, k \in ExtIds}

\* mp_func, the function a binding was made from: task2 binds a function
\* that tests its pointers before it uses them, the others bind functions
\* that use them at once, like test_func1..4.
mp_func(b) == [checks_null |-> b = "task2"]

\* The body of the bound functions: every parameter's object is read, and
\* the object of a "T*" parameter is incremented (increment(Counter*)).
\* A null pointer is skipped.
RECURSIVE increment(_, _, _)
increment(args, ptrs, value) ==
  IF args = <<>> THEN value
  ELSE LET rest == increment(Tail(args), Tail(ptrs), value)
       IN IF Head(ptrs) = NULL \/ Head(args).const
          THEN rest
          ELSE [rest EXCEPT ![Head(ptrs)] = @ + 1]

on_exec_ends_asserting(f, ptrs) ==
  IF \A i \in DOMAIN ptrs : ptrs[i] # NULL
  THEN {"returned"}
  ELSE {"aborted"}

\* The ways on_exec can end: assert(mp_func) holds for every binding made
\* by make_task_func, so the function is invoked; it returns, unless it
\* uses a null pointer it was passed, which is undefined behaviour: the
\* process crashes, or goes on.
on_exec_ends(f, ptrs) ==
  IF f.checks_null \/ \A i \in DOMAIN ptrs : ptrs[i] # NULL
  THEN {"returned"}
  ELSE {"returned", "crashed"}

\* --------------------------------------------------------------- queries

\* "no query made yet"
NoQuery == [at |-> 0, op |-> "none", on |-> "none", type |-> 0, val |-> NULL]

get_ptr_leaves_allocating(c, T) == set_ptr(c, T, get_ptr(c.R, c.ms, T))

\* What get_ptr<T>() leaves of the registry, the identities and the
\* counter: it reads TypeIndex<T>::ms_index and m_pointers and writes
\* nothing.
get_ptr_leaves(c, T) == c

\* What test_read_permission<T>() and test_write_permission<T>() (const)
\* leave of the Permission, the identities and the counter.
test_permission_leaves(c, T) == c

\* --------------------------------------------------------------- threads

\* The two threads of a program that registers concurrently.
ThreadIds == {"A", "B"}

\* What each thread works on: its own type, registry and Permission object.
ThreadType(t) == IF t = "A" THEN 1 ELSE 2

ThreadReg(t) == IF t = "A" THEN "r1" ELSE "r2"

ThreadPerm(t) == IF t = "A" THEN "lhs" ELSE "rhs"

\* A thread that has not started: pc is its place in set_ptr<T> or
\* set_read_permission<T>, space tells which of the two it runs, index is
\* the local variable of that name and tmp the value ++index loaded.
NoThread == [pc |-> "idle", space |-> "none", index |-> 0, tmp |-> 0]

\* ------------------------------------------------------------------ Init

Init ==
  /\ perm_index = 0
  /\ perm_ms_index = [T \in ManyTypes |-> 0]
  /\ perm_fault = FALSE
  /\ perms = [p \in PermIds |-> Permission]
  /\ tasks = [b \in TaskIds |-> NoTask]
  /\ running = [b \in TaskIds |-> Idle]
  /\ held = [b \in TaskIds |-> <<>>]
  /\ m_value = [a \in Objects |-> InitialValue]
  /\ calls = <<>>
  /\ process = "alive"
  /\ failed = NoFailure
  /\ threads = [t \in ThreadIds |-> NoThread]
  /\ ret = NoQuery
  /\ res_index = 0
  /\ res_ms_index = [T \in Types |-> 0]
  /\ regs = [r \in RegIds |-> Unborn]
  /\ n_values = 0
  /\ n_ops = 0
  /\ destroyed = <<>>
  /\ last_reg = [r \in RegIds |-> [T \in Types |-> None]]
  /\ built = [r \in RegIds |-> [mixed |-> FALSE, vals |-> <<>>]]
  /\ moved_from = [r \in RegIds |-> "no"]
  /\ moved_in = [r \in RegIds |-> NoMove]

\* --------------------------------------------- actions on Permission objects

PermApply(p, c) ==
  /\ perms' = [perms EXCEPT ![p] = c.p]
  /\ perm_ms_index' = c.ms
  /\ perm_index' = c.index
  /\ perm_fault' = ~c.ok
  /\ UNCHANGED <<tasks, execVars, resVars>>

\* permission.set_read_permission<T>() on a hand-built Permission
SetReadPermission(p, T) ==
  /\ ~perm_fault
  /\ PermApply(p, set_read_permission(
                    PermCtx(perms[p], perm_ms_index, perm_index, TRUE), T))

\* permission.set_write_permission<T>() on a hand-built Permission
SetWritePermission(p, T) ==
  /\ ~perm_fault
  /\ PermApply(p, set_write_permission(
                    PermCtx(perms[p], perm_ms_index, perm_index, TRUE), T))

\* task = make_task_func(allocator, f), f a callable with parameters args
MakeTaskFunc(b, args) ==
  /\ ~perm_fault
  /\ ~tasks[b].made
  /\ LET c == make_permission(args, perm_ms_index, perm_index)
     IN /\ perm_ms_index' = c.ms
        /\ perm_index' = c.index
        /\ perm_fault' = ~c.ok
        /\ tasks' = [tasks EXCEPT ![b] =
                       IF c.ok THEN TaskFunc(args, c.p) ELSE @]
  /\ UNCHANGED <<perms, execVars, resVars>>

\* ------------------------------------------------- actions on Resources

\* The pointers a caller can lend for type T: its own objects, or nullptr.
ExtPtrs(T) == {Ext(T, k) : k \in ExtIds} \cup {NULL}

\* s6i_task::Resources r(&allocator)
Construct(r) ==
  /\ regs[r].life = "unborn"
  /\ regs' = [regs EXCEPT ![r] = Resources]
  /\ UNCHANGED <<res_index, res_ms_index, n_values, n_ops, destroyed,
                 last_reg, built, moved_from, moved_in, permVars, execVars>>

\* The history of constructions after one more, on a registry that took
\* part in no move or swap.
Built(history, resource) ==
  IF history.mixed THEN Mixed
  ELSE [mixed |-> FALSE, vals |-> Append(history.vals, resource)]

\* What every registration leaves behind: the registry, the indexes, and
\* the history of r (a registration ends "nothing since the move").
Registered(r, T, c, ptr) ==
  /\ regs' = [regs EXCEPT ![r] = c.R]
  /\ res_ms_index' = c.ms
  /\ res_index' = c.index
  /\ last_reg' = [last_reg EXCEPT ![r][T] = ptr]
  /\ moved_from' = [moved_from EXCEPT ![r] = "no"]
  /\ moved_in' = [moved_in EXCEPT ![r] = NoMove]

\* r.set_ptr<T>(ptr)
SetPtr(r, T, ptr) ==
  /\ regs[r].life = "live"
  /\ n_ops < MaxOps
  /\ n_ops' = n_ops + 1
  /\ Registered(r, T, set_ptr(ResCtx(regs[r], res_ms_index, res_index), T, ptr), ptr)
  /\ UNCHANGED <<n_values, destroyed, built, permVars, execVars>>

\* r.set(T(...))
Set(r, T) ==
  /\ regs[r].life = "live"
  /\ n_ops < MaxOps
  /\ n_ops' = n_ops + 1
  /\ n_values' = n_values + 1
  /\ Registered(r, T, set(ResCtx(regs[r], res_ms_index, res_index), T, n_values + 1),
                AddrOf(Resource(T, n_values + 1)))
  /\ built' = [built EXCEPT ![r] = Built(@, Resource(T, n_values + 1))]
  /\ UNCHANGED <<destroyed, permVars, execVars>>

\* r.emplace<T>(...)
Emplace(r, T) ==
  /\ regs[r].life = "live"
  /\ n_ops < MaxOps
  /\ n_ops' = n_ops + 1
  /\ n_values' = n_values + 1
  /\ Registered(r, T, emplace(ResCtx(regs[r], res_ms_index, res_index), T, n_values + 1),
                AddrOf(Resource(T, n_values + 1)))
  /\ built' = [built EXCEPT ![r] = Built(@, Resource(T, n_values + 1))]
  /\ UNCHANGED <<destroyed, permVars, execVars>>

\* The process has not been ended by a failed assertion or a crash.
Alive == process = "alive"

\* r.set(T(...)) or r.emplace<T>(...) when the allocator has no memory left
NoMemory(r, T) ==
  /\ Alive
  /\ regs[r].life = "live"
  /\ n_ops < MaxOps
  /\ n_ops' = n_ops + 1
  /\ \E o \in no_memory(ResCtx(regs[r], res_ms_index, res_index), T) :
       /\ regs' = [regs EXCEPT ![r] = o.c.R]
       /\ res_ms_index' = o.c.ms
       /\ res_index' = o.c.index
       /\ process' = IF o.end = "returned" THEN "alive" ELSE o.end
       /\ failed' = [on |-> r, at |-> n_ops + 1, before |-> regs[r],
                     end |-> o.end, ret |-> o.ret]
  /\ UNCHANGED <<n_values, destroyed, last_reg, built, moved_from, moved_in,
                 running, held, m_value, calls, threads, ret, permVars>>

\* r.set(T(...)) without memory
SetNoMemory(r, T) == NoMemory(r, T)

\* r.emplace<T>(...) without memory
EmplaceNoMemory(r, T) == NoMemory(r, T)

\* Thread t calls r.set_ptr<T>(ptr) (space "res") or
\* p.set_read_permission<T>() (space "perm") on its own object.
ThreadCall(t, space) ==
  /\ threads[t].pc = "idle"
  /\ space = "res" => regs[ThreadReg(t)].life = "live"
  /\ threads' = [threads EXCEPT ![t] = [pc |-> "read", space |-> space,
                                       index |-> 0, tmp |-> 0]]
  /\ UNCHANGED <<running, held, m_value, calls, process, failed, ret,
                 permVars, resVars>>

\* auto index = TypeIndex<T>::ms_index; if (index == 0) ...
ThreadReadMsIndex(t) ==
  /\ threads[t].pc = "read"
  /\ LET ms == IF threads[t].space = "res" THEN res_ms_index ELSE perm_ms_index
         index == ms[ThreadType(t)]
     IN threads' = [threads EXCEPT ![t].index = index,
                                   ![t].pc = IF index = 0 THEN "load" ELSE "publish"]
  /\ UNCHANGED <<running, held, m_value, calls, process, failed, ret,
                 permVars, resVars>>

\* gen_type_index(): ++index reads the static counter ...
ThreadLoadIndex(t) ==
  /\ threads[t].pc = "load"
  /\ threads' = [threads EXCEPT
       ![t].tmp = IF threads[t].space = "res" THEN res_index ELSE perm_index,
       ![t].pc = "store"]
  /\ UNCHANGED <<running, held, m_value, calls, process, failed, ret,
                 permVars, resVars>>

\* ... and writes it back, one more; gen_type_index returns that value.
ThreadStoreIndex(t) ==
  /\ threads[t].pc = "store"
  /\ threads' = [threads EXCEPT ![t].index = threads[t].tmp + 1,
                                 ![t].pc = "assign"]
  /\ IF threads[t].space = "res"
     THEN /\ res_index' = threads[t].tmp + 1
          /\ UNCHANGED perm_index
     ELSE /\ perm_index' = threads[t].tmp + 1
          /\ UNCHANGED res_index
  /\ UNCHANGED <<running, held, m_value, calls, process, failed, ret,
                 perm_ms_index, perm_fault, perms, tasks,
                 res_ms_index, regs, n_values, n_ops, destroyed,
                 last_reg, built, moved_from, moved_in>>

\* index = TypeIndex<T>::ms_index = gen_type_index();
ThreadAssignMsIndex(t) ==
  /\ threads[t].pc = "assign"
  /\ threads' = [threads EXCEPT ![t].pc = "publish"]
  /\ IF threads[t].space = "res"
     THEN /\ res_ms_index' = [res_ms_index EXCEPT ![ThreadType(t)] = threads[t].index]
          /\ UNCHANGED perm_ms_index
     ELSE /\ perm_ms_index' = [perm_ms_index EXCEPT ![ThreadType(t)] = threads[t].index]
          /\ UNCHANGED res_ms_index
  /\ UNCHANGED <<running, held, m_value, calls, process, failed, ret,
                 perm_index, perm_fault, perms, tasks,
                 res_index, regs, n_values, n_ops, destroyed,
                 last_reg, built, moved_from, moved_in>>

\* resize and m_pointers[index] = ptr, or m_read_permission.set(index), on
\* the thread's own object.
ThreadPublish(t) ==
  /\ threads[t].pc = "publish"
  /\ threads' = [threads EXCEPT ![t].pc = "done"]
  /\ LET index == threads[t].index
         r == ThreadReg(t)
         p == ThreadPerm(t)
         T == ThreadType(t)
         grown == IF index >= Len(regs[r].m_pointers)
                  THEN resize(regs[r].m_pointers, index + 1)
                  ELSE regs[r].m_pointers
     IN IF threads[t].space = "res"
        THEN /\ regs' = [regs EXCEPT ![r].m_pointers =
                                   [grown EXCEPT ![index + 1] = Ext(T, "a")]]
             /\ last_reg' = [last_reg EXCEPT ![r][T] = Ext(T, "a")]
             /\ UNCHANGED perms
        ELSE /\ perms' = [perms EXCEPT ![p].m_read_permission = @ \cup {index}]
             /\ UNCHANGED <<regs, last_reg>>
  /\ UNCHANGED <<running, held, m_value, calls, process, failed, ret,
                 perm_index, perm_ms_index, perm_fault, tasks,
                 res_index, res_ms_index, n_values, n_ops, destroyed,
                 built, moved_from, moved_in>>

\* r.get_ptr<T>()
GetPtr(r, T) ==
  /\ regs[r].life = "live"
  /\ n_ops < MaxOps
  /\ n_ops' = n_ops + 1
  /\ LET c == get_ptr_leaves(ResCtx(regs[r], res_ms_index, res_index), T)
     IN /\ regs' = [regs EXCEPT ![r] = c.R]
        /\ res_ms_index' = c.ms
        /\ res_index' = c.index
  /\ ret' = [at |-> n_ops + 1, op |-> "get_ptr", on |-> r, type |-> T,
              val |-> get_ptr(regs[r], res_ms_index, T)]
  /\ UNCHANGED <<n_values, destroyed, last_reg, built, moved_from, moved_in,
                 running, held, m_value, calls, process, failed, threads,
                 permVars>>

\* What a query of a Permission leaves behind.
TestPermission(p, T, op, val) ==
  /\ n_ops < MaxOps
  /\ n_ops' = n_ops + 1
  /\ LET c == test_permission_leaves(
                 PermCtx(perms[p], perm_ms_index, perm_index, TRUE), T)
     IN /\ perms' = [perms EXCEPT ![p] = c.p]
        /\ perm_ms_index' = c.ms
        /\ perm_index' = c.index
  /\ ret' = [at |-> n_ops + 1, op |-> op, on |-> p, type |-> T, val |-> val]
  /\ UNCHANGED <<perm_fault, tasks, res_index, res_ms_index, regs, n_values,
                 destroyed, last_reg, built, moved_from, moved_in,
                 running, held, m_value, calls, process, failed, threads>>

\* p.test_read_permission<T>()
TestReadPermission(p, T) ==
  TestPermission(p, T, "test_read_permission",
                 test_read_permission(perms[p], perm_ms_index, T))

\* p.test_write_permission<T>()
TestWritePermission(p, T) ==
  TestPermission(p, T, "test_write_permission",
                 test_write_permission(perms[p], perm_ms_index, T))

\* r goes out of scope: ~Resources()
Destroy(r) ==
  /\ regs[r].life = "live"
  /\ destroyed' = destroyed \o Destructed(regs[r].m_resources, r)
  /\ regs' = [regs EXCEPT ![r] = [life |-> "dead", m_pointers |-> <<>>,
                                  m_resources |-> <<>>]]
  /\ last_reg' = [last_reg EXCEPT ![r] = [T \in Types |-> None]]
  /\ UNCHANGED <<res_index, res_ms_index, n_values, n_ops,
                 built, moved_from, moved_in, permVars, execVars>>

\* s6i_task::Resources d(std::move(s))
MoveConstruct(d, s) ==
  /\ d # s
  /\ regs[d].life = "unborn"
  /\ regs[s].life = "live"
  /\ regs' = [regs EXCEPT ![d] = MovedTo(regs[s]), ![s] = MovedFrom(regs[s])]
  /\ last_reg' = [last_reg EXCEPT ![d] = last_reg[s],
                                  ![s] = [T \in Types |-> None]]
  /\ built' = [built EXCEPT ![d] = Mixed, ![s] = Mixed]
  /\ moved_from' = [moved_from EXCEPT ![s] = "other"]
  /\ moved_in' = [moved_in EXCEPT ![s] = NoMove, ![d] =
        [from |-> s,
         vals |-> regs[s].m_resources,
         ptrs |-> [T \in Types |-> get_ptr(regs[s], res_ms_index, T)]]]
  /\ UNCHANGED <<res_index, res_ms_index, n_values, n_ops, destroyed,
                 permVars, execVars>>

\* d = std::move(s): Resources(std::move(s)).swap(d), then the temporary,
\* which now holds what d held, is destroyed.
MoveAssign(d, s) ==
  /\ regs[d].life = "live"
  /\ regs[s].life = "live"
  /\ LET tmp0 == MovedTo(regs[s])
         regs1 == [regs EXCEPT ![s] = MovedFrom(regs[s])]
         tmp1 == regs1[d]
         regs2 == [regs1 EXCEPT ![d] = tmp0]
     IN /\ regs' = regs2
        /\ destroyed' = destroyed \o Destructed(tmp1.m_resources, "tmp")
  /\ last_reg' = IF d = s THEN last_reg
                 ELSE [last_reg EXCEPT ![d] = last_reg[s],
                                       ![s] = [T \in Types |-> None]]
  /\ built' = IF d = s THEN built
               ELSE [built EXCEPT ![d] = Mixed, ![s] = Mixed]
  /\ moved_from' = IF d = s THEN [moved_from EXCEPT ![s] = "self"]
                   ELSE [moved_from EXCEPT ![s] = "other", ![d] = "no"]
  /\ moved_in' = IF d = s THEN moved_in
                  ELSE [moved_in EXCEPT ![s] = NoMove, ![d] = NoMove]
  /\ UNCHANGED <<res_index, res_ms_index, n_values, n_ops, permVars, execVars>>

\* a.swap(b), swap(a, b)
Swap(a, b) ==
  /\ regs[a].life = "live"
  /\ regs[b].life = "live"
  /\ regs' = [regs EXCEPT ![a] = regs[b], ![b] = regs[a]]
  /\ last_reg' = [last_reg EXCEPT ![a] = last_reg[b], ![b] = last_reg[a]]
  /\ built' = IF a = b THEN built
               ELSE [built EXCEPT ![a] = Mixed, ![b] = Mixed]
  /\ moved_from' = IF a = b THEN moved_from
                   ELSE [moved_from EXCEPT ![a] = "no", ![b] = "no"]
  /\ moved_in' = IF a = b THEN moved_in
                  ELSE [moved_in EXCEPT ![a] = NoMove, ![b] = NoMove]
  /\ UNCHANGED <<res_index, res_ms_index, n_values, n_ops, destroyed,
                 permVars, execVars>>

\* Registries that are filled and destroyed, never moved.
NextReg ==
  \/ \E r \in RegIds : Construct(r)
  \/ \E r \in RegIds, T \in Types : \E ptr \in ExtPtrs(T) : SetPtr(r, T, ptr)
  \/ \E r \in RegIds, T \in Types : Set(r, T)
  \/ \E r \in RegIds, T \in Types : Emplace(r, T)
  \/ \E r \in RegIds : Destroy(r)

SpecReg == Init /\ [][NextReg]_vars

\* Registries that are filled by an allocator that can run out of memory.
NextAlloc ==
  \/ \E r \in RegIds : Alive /\ Construct(r)
  \/ \E r \in RegIds, T \in Types : Alive /\ SetPtr(r, T, Ext(T, "a"))
  \/ \E r \in RegIds, T \in Types : Alive /\ Set(r, T)
  \/ \E r \in RegIds, T \in Types : Alive /\ Emplace(r, T)
  \/ \E r \in RegIds, T \in Types : SetNoMemory(r, T)
  \/ \E r \in RegIds, T \in Types : EmplaceNoMemory(r, T)

SpecAlloc == Init /\ [][NextAlloc]_vars

\* Two threads, each making the first registration of its own type on its
\* own registry, or the first marking of it on its own Permission.
NextRace ==
  \/ \E r \in RegIds : Construct(r)
  \/ \E t \in ThreadIds, space \in {"res", "perm"} : ThreadCall(t, space)
  \/ \E t \in ThreadIds : ThreadReadMsIndex(t)
  \/ \E t \in ThreadIds : ThreadLoadIndex(t)
  \/ \E t \in ThreadIds : ThreadStoreIndex(t)
  \/ \E t \in ThreadIds : ThreadAssignMsIndex(t)
  \/ \E t \in ThreadIds : ThreadPublish(t)

SpecRace == Init /\ [][NextRace]_vars

\* A program that fills a registry and a Permission, and queries them.
NextQuery ==
  \/ Construct("r1")
  \/ \E T \in Types : Emplace("r1", T)
  \/ \E T \in Types : SetReadPermission("lhs", T)
  \/ \E T \in Types : SetWritePermission("lhs", T)
  \/ \E T \in Types : GetPtr("r1", T)
  \/ \E T \in Types : TestReadPermission("lhs", T)
  \/ \E T \in Types : TestWritePermission("lhs", T)

SpecQuery == Init /\ [][NextQuery]_vars

\* Registries that are also moved, move-assigned and swapped; set_ptr lends
\* the first caller-owned object of a type.
NextMove ==
  \/ \E r \in RegIds : Construct(r)
  \/ \E r \in RegIds, T \in Types : SetPtr(r, T, Ext(T, "a"))
  \/ \E r \in RegIds, T \in Types : Set(r, T)
  \/ \E r \in RegIds, T \in Types : Emplace(r, T)
  \/ \E r \in RegIds : Destroy(r)
  \/ \E d, s \in RegIds : MoveConstruct(d, s)
  \/ \E d, s \in RegIds : MoveAssign(d, s)
  \/ \E a, b \in RegIds : Swap(a, b)

SpecMove == Init /\ [][NextMove]_vars

\* ------------------------------------------------------ actions on tasks

\* The callables the program binds: the parameter lists of test_func1..4
\* and of the lambdas of the tests, over the first two types.
Callables ==
  { <<Param(1, FALSE)>>,
    <<Param(1, TRUE)>>,
    <<Param(1, FALSE), Param(2, FALSE)>>,
    <<Param(1, TRUE), Param(2, TRUE)>>,
    <<Param(1, TRUE), Param(2, FALSE)>>,
    <<Param(2, TRUE)>> }

\* The external scheduler's contract: a binding is started only when its
\* permission conflicts with that of no binding that is running.
SchedulerAllows(b) ==
  \A o \in TaskIds \ {b} :
    running[o] # Idle => ~is_conflict(permission(b), permission(o))

\* The external contract on the registry: it is not mutated while a binding
\* runs on it.
Quiescent(r) == \A b \in TaskIds : running[b] # r

\* task->exec(&r) is entered: on_exec resolves the arguments and invokes
\* the callable, which holds them until it returns.
ExecBegin(b, r) ==
  /\ tasks[b].made
  /\ running[b] = Idle
  /\ regs[r].life = "live"
  /\ SchedulerAllows(b)
  /\ running' = [running EXCEPT ![b] = r]
  /\ held' = [held EXCEPT ![b] =
       on_exec(tasks[b].args, regs[r], tasks[b].m_local_resources, res_ms_index)]
  /\ UNCHANGED <<objVars, permVars, resVars>>

\* the callable returns, and with it task->exec(&r)
ExecEnd(b) ==
  /\ running[b] # Idle
  /\ running' = [running EXCEPT ![b] = Idle]
  /\ held' = [held EXCEPT ![b] = <<>>]
  /\ UNCHANGED <<objVars, permVars, resVars>>

NextSched ==
  \/ Construct("r1")
  \/ \E T \in Types : Quiescent("r1") /\ Emplace("r1", T)
  \/ \E b \in TaskIds, args \in Callables : MakeTaskFunc(b, args)
  \/ \E b \in TaskIds : ExecBegin(b, "r1")
  \/ \E b \in TaskIds : ExecEnd(b)

SpecSched == Init /\ [][NextSched]_vars

\* task->exec(&r), from the call to its return, on one thread.
Exec(b, r) ==
  /\ Alive
  /\ tasks[b].made
  /\ running[b] = Idle
  /\ regs[r].life = "live"
  /\ n_ops < MaxOps
  /\ n_ops' = n_ops + 1
  /\ LET ptrs == on_exec(tasks[b].args, regs[r], tasks[b].m_local_resources,
                          res_ms_index)
     IN \E end \in on_exec_ends(mp_func(b), ptrs) :
          /\ calls' = Append(calls, [task |-> b, on |-> r, at |-> n_ops,
                                     args |-> ptrs, end |-> end])
          /\ m_value' = IF end = "returned"
                         THEN increment(tasks[b].args, ptrs, m_value)
                         ELSE m_value
          /\ process' = IF end = "returned" THEN "alive" ELSE end
  /\ UNCHANGED <<running, held, failed, threads, ret, permVars, res_index, res_ms_index,
                 regs, n_values, destroyed, last_reg, built, moved_from,
                 moved_in>>

\* A single-threaded program: registries are constructed and filled,
\* bindings are made and executed.
NextExec ==
  \/ \E r \in RegIds : Alive /\ Construct(r)
  \/ \E r \in RegIds, T \in Types : Alive /\ Emplace(r, T)
  \/ \E b \in {"task1", "task2"}, args \in Callables :
       Alive /\ MakeTaskFunc(b, args)
  \/ \E b \in TaskIds, r \in RegIds : Exec(b, r)

SpecExec == Init /\ [][NextExec]_vars

\* A single-threaded program that makes bindings and executes them while
\* r1 is filled and the registries are moved and destroyed.
NextFrame ==
  \/ \E r \in RegIds : Alive /\ Construct(r)
  \/ \E T \in Types : Alive /\ Emplace("r1", T)
  \/ \E r \in RegIds : Alive /\ Destroy(r)
  \/ \E d, s \in RegIds : Alive /\ MoveConstruct(d, s)
  \/ \E b \in {"task1", "task2"} :
       \E args \in {<<Param(1, FALSE)>>, <<Param(1, TRUE), Param(2, FALSE)>>} :
         Alive /\ MakeTaskFunc(b, args)
  \/ \E b \in TaskIds, r \in RegIds : Exec(b, r)

SpecFrame == Init /\ [][NextFrame]_vars

NextPerm ==
  \/ \E p \in PermIds, T \in Types : SetReadPermission(p, T)
  \/ \E p \in PermIds, T \in Types : SetWritePermission(p, T)

SpecPerm == Init /\ [][NextPerm]_vars

\* A program that marks one new type after the other: the odd ones for
\* reading on lhs, the even ones for writing on rhs, and the last few on
\* either object for either access.
NextCap ==
  \E T \in ManyTypes :
    /\ T = perm_index + 1
    /\ \/ T % 2 = 1 /\ SetReadPermission("lhs", T)
       \/ T % 2 = 0 /\ SetWritePermission("rhs", T)
       \/ /\ T > BIT_N - 3
          /\ \E p \in PermIds : SetReadPermission(p, T) \/ SetWritePermission(p, T)

SpecCap == Init /\ [][NextCap]_vars

\* A program that fills registries and marks permissions, in any order.
NextIds ==
  \/ \E r \in RegIds : Construct(r)
  \/ \E r \in RegIds, T \in Types : Emplace(r, T)
  \/ \E T \in Types : SetReadPermission("lhs", T)
  \/ \E T \in Types : SetWritePermission("rhs", T)

SpecIds == Init /\ [][NextIds]_vars

NextMake ==
  \E b \in {"task1", "task2"}, args \in ParamLists : MakeTaskFunc(b, args)

SpecMake == Init /\ [][NextMake]_vars

\* ------------------------------------------------------- claims: Permission

\* The types a Permission grants read (write) access to, as its queries
\* test_read_permission<T>() / test_write_permission<T>() report them.
ReadTypes(p) == {T \in Types : test_read_permission(p, perm_ms_index, T)}

WriteTypes(p) == {T \in Types : test_write_permission(p, perm_ms_index, T)}

\* C2: for every pair of permissions a and b, is_conflict(a, b) is true
\* exactly when a reads a type b writes, or a writes a type b reads, or both
\* write one type; read/read on the same or on different types never
\* conflicts, write/read and write/write on one type always do.
C2_ConflictIffOverlap ==
  \A a, b \in PermIds :
    /\ is_conflict(perms[a], perms[b]) <=>
         \/ ReadTypes(perms[a]) \cap WriteTypes(perms[b]) # {}
         \/ WriteTypes(perms[a]) \cap ReadTypes(perms[b]) # {}
         \/ WriteTypes(perms[a]) \cap WriteTypes(perms[b]) # {}
    /\ (WriteTypes(perms[a]) = {} /\ WriteTypes(perms[b]) = {})
         => ~is_conflict(perms[a], perms[b])
    /\ \A T \in Types :
         (T \in WriteTypes(perms[a]) /\ T \in ReadTypes(perms[b]) \cup WriteTypes(perms[b]))
           => is_conflict(perms[a], perms[b]) /\ is_conflict(perms[b], perms[a])

\* Both write T1, lhs reads nothing and rhs reads only T2: only the
\* write/write intersection is non-empty, and they conflict.
C2_Witness ==
  /\ WriteTypes(perms["lhs"]) = {1} /\ ReadTypes(perms["lhs"]) = {}
  /\ WriteTypes(perms["rhs"]) = {1} /\ ReadTypes(perms["rhs"]) = {2}
  /\ is_conflict(perms["lhs"], perms["rhs"])

\* C3: the conflict predicate is commutative.
C3_ConflictCommutes ==
  \A a, b \in PermIds :
    is_conflict(perms[a], perms[b]) = is_conflict(perms[b], perms[a])

\* lhs only reads T1 and rhs only writes it: the conflict is found through
\* a different intersection in each direction.
C3_Witness ==
  /\ ReadTypes(perms["lhs"]) = {1} /\ WriteTypes(perms["lhs"]) = {}
  /\ WriteTypes(perms["rhs"]) = {1} /\ ReadTypes(perms["rhs"]) = {}
  /\ is_conflict(perms["lhs"], perms["rhs"])
  /\ is_conflict(perms["rhs"], perms["lhs"])

\* ------------------------------------------------- claims: make_permission

\* The types named by the parameters of a list, and by its "T*" parameters.
ArgTypes(args) == {args[i].type : i \in DOMAIN args}

MutArgTypes(args) == {args[i].type : i \in {j \in DOMAIN args : ~args[j].const}}

\* C4: the permission a binding derives from its parameter list reads
\* exactly the types of its parameters and writes exactly the types of its
\* "T*" parameters, whatever the order of the parameters; no other bit, and
\* never bit 0, is set.
C4_DerivedPermission ==
  \A b \in TaskIds :
    tasks[b].made =>
      /\ ReadTypes(permission(b)) = ArgTypes(tasks[b].args)
      /\ WriteTypes(permission(b)) = MutArgTypes(tasks[b].args)
      /\ permission(b).m_read_permission =
           {perm_ms_index[T] : T \in ArgTypes(tasks[b].args)}
      /\ permission(b).m_write_permission =
           {perm_ms_index[T] : T \in MutArgTypes(tasks[b].args)}
      /\ 0 \notin permission(b).m_read_permission \cup permission(b).m_write_permission

\* task1 binds f(T1*, const T2*), task2 binds g(const T2*, T2*).
C4_Witness ==
  /\ tasks["task1"].made /\ tasks["task2"].made
  /\ tasks["task1"].args = <<Param(1, FALSE), Param(2, TRUE)>>
  /\ tasks["task2"].args = <<Param(2, TRUE), Param(2, FALSE)>>
  /\ ReadTypes(permission("task1")) = {1, 2}
  /\ WriteTypes(permission("task1")) = {1}
  /\ ReadTypes(permission("task2")) = {2}
  /\ WriteTypes(permission("task2")) = {2}

\* ---------------------------------------------------------- claims: exec

\* C1: when the scheduler only starts a binding whose permission conflicts
\* with that of no running binding, no type T is held through a non-null
\* mutable pointer by one running callable while another running callable
\* holds a non-null pointer (mutable or const) to the registered T.
C1_NoSharedMutable ==
  \A b1, b2 \in TaskIds :
    (b1 # b2 /\ running[b1] # Idle /\ running[b2] # Idle) =>
      \A i \in DOMAIN held[b1], j \in DOMAIN held[b2] :
        ~ /\ ~tasks[b1].args[i].const
          /\ held[b1][i] # NULL
          /\ held[b2][j] # NULL
          /\ \/ tasks[b2].args[j].type = tasks[b1].args[i].type
             \/ held[b2][j] = held[b1][i]

\* task1 runs f(const T1*, T2*) and task2 runs g(const T1*) at the same
\* time: both hold the registered T1, read-only, and task1 alone holds T2.
C1_Witness ==
  /\ running["task1"] = "r1" /\ running["task2"] = "r1"
  /\ tasks["task1"].args = <<Param(1, TRUE), Param(2, FALSE)>>
  /\ tasks["task2"].args = <<Param(1, TRUE)>>
  /\ held["task1"][1] # NULL /\ held["task1"][2] # NULL
  /\ held["task2"][1] = held["task1"][1]

\* ----------------------------------------------------- claims: Resources

\* The values whose destructor the destruction of registry `by` ran, in
\* order.
DestroyedBy(by) ==
  LET mine == SelectSeq(destroyed, LAMBDA e : e.by = by)
  IN [i \in 1..Len(mine) |-> mine[i].val]

Reverse(seq) == [i \in 1..Len(seq) |-> seq[Len(seq) + 1 - i]]

\* How many destructor calls a value received.
TimesDestroyed(v) == Cardinality({i \in DOMAIN destroyed : destroyed[i].val = v})

\* C5: get_ptr<T>() returns the pointer of the most recent registration of
\* T on the registry, whatever was registered for other types before or
\* after it and however the table grew.
C5_LastRegistrationWins ==
  \A r \in RegIds, T \in Types :
    (regs[r].life = "live" /\ last_reg[r][T] # None) =>
      get_ptr(regs[r], res_ms_index, T) = last_reg[r][T]

\* r1 constructed a T1, then T1 was overwritten by the borrowed object b,
\* and T2 is registered too (the table grew to three slots or more).
C5_Witness ==
  /\ regs["r1"].life = "live"
  /\ \E i \in DOMAIN regs["r1"].m_resources : regs["r1"].m_resources[i].type = 1
  /\ last_reg["r1"][1] = Ext(1, "b")
  /\ last_reg["r1"][2] # None
  /\ Len(regs["r1"].m_pointers) >= 3
  /\ get_ptr(regs["r1"], res_ms_index, 1) = Ext(1, "b")

\* C6: get_ptr<T>() is null on a registry on which T was never registered,
\* also when T has an identity from another registry and when the table of
\* the registry has grown past that identity.
C6_UnregisteredIsNull ==
  \A r \in RegIds, T \in Types :
    (regs[r].life = "live" /\ last_reg[r][T] = None) =>
      get_ptr(regs[r], res_ms_index, T) = NULL

\* T1 got its identity on r2, and the table of r1, where T1 was never
\* registered, has a slot for it because T2 was registered there.
C6_Witness ==
  /\ regs["r1"].life = "live"
  /\ last_reg["r1"][1] = None
  /\ last_reg["r2"][1] # None /\ last_reg["r2"][1] # NULL
  /\ res_ms_index[1] # 0
  /\ res_ms_index[1] < Len(regs["r1"].m_pointers)
  /\ get_ptr(regs["r1"], res_ms_index, 1) = NULL

\* C7: destroying a registry that constructed V1..Vn destroys them in the
\* order Vn..V1, each once, and none of them before the destruction.
C7_ReverseDestruction ==
  \A r \in RegIds :
    ~built[r].mixed =>
      /\ regs[r].life = "live" =>
           \A i \in DOMAIN built[r].vals : TimesDestroyed(built[r].vals[i]) = 0
      /\ regs[r].life = "dead" =>
           /\ DestroyedBy(r) = Reverse(built[r].vals)
           /\ \A i \in DOMAIN built[r].vals : TimesDestroyed(built[r].vals[i]) = 1

\* r1 constructed three values and was destroyed.
C7_Witness ==
  /\ regs["r1"].life = "dead"
  /\ Len(built["r1"].vals) = 3
  /\ \E i, j \in 1..3 : built["r1"].vals[i].type # built["r1"].vals[j].type
  /\ DestroyedBy("r1") = Reverse(built["r1"].vals)

\* The values of type T a registry constructed before its latest one.
Overwritten(r, T) ==
  {i \in DOMAIN built[r].vals :
     /\ built[r].vals[i].type = T
     /\ \E j \in DOMAIN built[r].vals : j > i /\ built[r].vals[j].type = T}

\* C8: constructing a second value of type T does not destroy the first:
\* it stays in its position of the owned list, alive, until the registry is
\* destroyed, and is then destroyed after the values constructed after it;
\* get_ptr<T>() never returns it again.
C8_OverwriteKeepsPrior ==
  \A r \in RegIds, T \in Types :
    ~built[r].mixed =>
      \A i \in Overwritten(r, T) :
        /\ regs[r].life = "live" =>
             /\ i \in DOMAIN regs[r].m_resources
             /\ regs[r].m_resources[i] = built[r].vals[i]
             /\ TimesDestroyed(built[r].vals[i]) = 0
             /\ get_ptr(regs[r], res_ms_index, T) # AddrOf(built[r].vals[i])
        /\ regs[r].life = "dead" =>
             /\ TimesDestroyed(built[r].vals[i]) = 1
             /\ \A j \in DOMAIN built[r].vals :
                  j > i =>
                    \E k, l \in DOMAIN destroyed :
                      /\ k < l
                      /\ destroyed[k].val = built[r].vals[j]
                      /\ destroyed[l].val = built[r].vals[i]

\* r1 constructed two values of type T1: both are alive, the first is still
\* first in the owned list, and get_ptr<T1>() returns the second.
C8_Witness ==
  /\ regs["r1"].life = "live"
  /\ ~built["r1"].mixed
  /\ Len(built["r1"].vals) = 2
  /\ built["r1"].vals[1].type = 1 /\ built["r1"].vals[2].type = 1
  /\ regs["r1"].m_resources = built["r1"].vals
  /\ get_ptr(regs["r1"], res_ms_index, 1) = AddrOf(built["r1"].vals[2])
  /\ destroyed = <<>>

\* C9: after the move construction of d from s, which owned V1..Vn, none of
\* them is destroyed and d resolves every type to the address s resolved it
\* to; destroying s runs no destructor; destroying d destroys Vn..V1, each
\* exactly once, in either order of the two destructions.
C9_MoveConstruct ==
  \A d \in RegIds :
    moved_in[d].from # "none" =>
      LET s == moved_in[d].from
          vals == moved_in[d].vals
      IN /\ regs[d].life # "unborn"
         /\ regs[d].life = "live" =>
              /\ regs[d].m_resources = vals
              /\ \A T \in Types :
                   get_ptr(regs[d], res_ms_index, T) = moved_in[d].ptrs[T]
              /\ \A i \in DOMAIN vals : TimesDestroyed(vals[i]) = 0
         /\ regs[d].life = "dead" =>
              /\ DestroyedBy(d) = Reverse(vals)
              /\ \A i \in DOMAIN vals : TimesDestroyed(vals[i]) = 1
         /\ (moved_from[s] = "other" /\ regs[s].life = "dead") =>
              DestroyedBy(s) = <<>>

\* r2 was move-constructed from r1, which owned two values; both registries
\* are destroyed, and only the destruction of r2 ran destructors.
C9_Witness ==
  /\ moved_in["r2"].from = "r1"
  /\ Len(moved_in["r2"].vals) >= 2
  /\ moved_from["r1"] = "other"
  /\ regs["r1"].life = "dead" /\ regs["r2"].life = "dead"
  /\ DestroyedBy("r1") = <<>>
  /\ DestroyedBy("r2") = Reverse(moved_in["r2"].vals)

\* A registry with nothing in it: no owned value, null for every type.
IsEmpty(r) ==
  /\ regs[r].m_resources = <<>>
  /\ \A T \in Types : get_ptr(regs[r], res_ms_index, T) = NULL

\* C10, as stated: a registry that was moved from, by a move construction
\* or a move assignment, is empty until something is registered on it.
C10_MovedFromIsEmpty_AsStated ==
  \A r \in RegIds :
    (regs[r].life = "live" /\ moved_from[r] # "no") => IsEmpty(r)

\* C10, amended: a registry that was moved from into another registry is
\* empty until something is registered on it (or moved or swapped into it).
C10_MovedFromIsEmpty ==
  \A r \in RegIds :
    (regs[r].life = "live" /\ moved_from[r] = "other") => IsEmpty(r)

\* r1 had an owned and registered value and was moved from into r2.
C10_Witness ==
  /\ regs["r1"].life = "live" /\ regs["r2"].life = "live"
  /\ moved_from["r1"] = "other"
  /\ regs["r2"].m_resources # <<>>
  /\ \E T \in Types : get_ptr(regs["r2"], res_ms_index, T) # NULL
  /\ IsEmpty("r1")

\* The values the destructor calls of the step were made on, in order.
NewlyDestroyed ==
  [i \in 1..(Len(destroyed') - Len(destroyed)) |->
     destroyed'[Len(destroyed) + i].val]

\* What a step of the program does to the destructor log and to the
\* registries, as far as move assignment is concerned.
MoveAssignStep ==
  /\ \A d, s \in RegIds :
       (d # s /\ MoveAssign(d, s)) =>
         /\ NewlyDestroyed = Reverse(regs[d].m_resources)
         /\ regs'[d].life = "live"
         /\ regs'[d].m_resources = regs[s].m_resources
         /\ \A T \in Types :
              /\ get_ptr(regs'[d], res_ms_index', T) =
                   get_ptr(regs[s], res_ms_index, T)
              /\ get_ptr(regs[s], res_ms_index, T) = NULL
                   => get_ptr(regs'[d], res_ms_index', T) = NULL
  /\ \A d \in RegIds :
       Destroy(d) => NewlyDestroyed = Reverse(regs[d].m_resources)
  /\ \A r \in RegIds :
       regs'[r].life = "live" =>
         \A i \in DOMAIN regs'[r].m_resources :
           Cardinality({k \in DOMAIN destroyed' :
                          destroyed'[k].val = regs'[r].m_resources[i]}) = 0

\* C11: the move assignment d = std::move(s), d and s different registries,
\* destroys the values d owned, in reverse construction order, before it
\* returns, and none of those s owned; afterwards d owns the values of s
\* and resolves every type to the address s resolved it to, so a type
\* registered only in the old d resolves to null; the values s owned are
\* destroyed, in reverse order, by the destruction of d and by nothing
\* before it: no value a live registry owns has been destroyed.
C11_MoveAssign == [][MoveAssignStep]_vars

\* r1, which owned a T1, was move-assigned to r2, which owned two T2: the
\* two T2 were destroyed by the assignment, latest first; r2 owns r1's T1,
\* alive, and resolves T1 to it and T2 to null; r1 is empty.
C11_Witness ==
  /\ moved_from["r1"] = "other"
  /\ regs["r1"].life = "live" /\ regs["r2"].life = "live"
  /\ Len(DestroyedBy("tmp")) = 2
  /\ DestroyedBy("tmp")[1].type = 2 /\ DestroyedBy("tmp")[2].type = 2
  /\ DestroyedBy("tmp")[1].id > DestroyedBy("tmp")[2].id
  /\ Len(destroyed) = 2
  /\ Len(regs["r2"].m_resources) = 1
  /\ get_ptr(regs["r2"], res_ms_index, 1) = AddrOf(regs["r2"].m_resources[1])
  /\ get_ptr(regs["r2"], res_ms_index, 2) = NULL
  /\ IsEmpty("r1")

\* -------------------------------------------------- claims: exec, one thread

\* How many times the exec calls that returned passed the address a for a
\* "T*" parameter.
TimesPassedMutable(a) ==
  Cardinality({ki \in {<<k, i>> : k \in DOMAIN calls, i \in 1..MaxParams} :
                 /\ calls[ki[1]].end = "returned"
                 /\ ki[2] \in DOMAIN calls[ki[1]].args
                 /\ calls[ki[1]].args[ki[2]] = a
                 /\ ~tasks[calls[ki[1]].task].args[ki[2]].const})

\* What one exec call does: the function is invoked once, with the pointer
\* registered in the supplied registry for each parameter's type, and once
\* it returned every object holds its initial value plus the number of
\* times it was passed for a "T*" parameter.
ExecStep ==
  /\ Len(calls') > Len(calls) =>
       LET e == calls'[Len(calls')]
       IN /\ Len(calls') = Len(calls) + 1
          /\ Len(e.args) = Len(tasks[e.task].args)
          /\ \A i \in DOMAIN e.args :
               e.args[i] = get_ptr(regs[e.on], res_ms_index, tasks[e.task].args[i].type)
  /\ process' = "alive" =>
       \A a \in Objects : m_value'[a] = InitialValue + TimesPassedMutable(a)'

\* C12: exec(registry) invokes the bound function once per call, passing for
\* each parameter the pointer registered in that registry for its type, so
\* the function changes the registered object itself: a Counter constructed
\* with 42 and passed to increment(Counter*) holds 42 + k after k calls.
C12_ExecIncrements == [][ExecStep]_vars

\* task1 binds increment(T1*), r1 holds a T1 constructed with 42, and two
\* exec calls on r1 returned: the T1 holds 44.
C12_Witness ==
  /\ tasks["task1"].made /\ tasks["task1"].args = <<Param(1, FALSE)>>
  /\ regs["r1"].life = "live"
  /\ get_ptr(regs["r1"], res_ms_index, 1) = AddrOf(Resource(1, 1))
  /\ Len(calls) = 2
  /\ \A k \in 1..2 : /\ calls[k].task = "task1" /\ calls[k].on = "r1"
                      /\ calls[k].end = "returned"
                      /\ calls[k].args = <<AddrOf(Resource(1, 1))>>
  /\ m_value[AddrOf(Resource(1, 1))] = InitialValue + 2

\* What one exec call does with the parameters whose type was never
\* registered in the registry it is given, and what a call that repeats the
\* previous one does.
MissingStep ==
  Len(calls') > Len(calls) =>
    LET e == calls'[Len(calls')]
        f == tasks[e.task].args
    IN /\ process' # "aborted"
       /\ e.end \in {"returned", "crashed"}
       /\ Len(e.args) = Len(f)
       /\ \A i \in DOMAIN f :
            /\ last_reg[e.on][f[i].type] = None => e.args[i] = NULL
            /\ last_reg[e.on][f[i].type] # None
                 => e.args[i] = last_reg[e.on][f[i].type]
       /\ (\E i \in DOMAIN f : last_reg[e.on][f[i].type] = None)
            => /\ mp_func(e.task).checks_null => e.end = "returned"
               /\ \A a \in Objects :
                    (\A i \in DOMAIN f : e.args[i] # a)
                      => m_value'[a] = m_value[a]
       /\ (/\ calls # <<>>
           /\ calls[Len(calls)].task = e.task
           /\ calls[Len(calls)].on = e.on
           /\ calls[Len(calls)].at + 1 = e.at)
            => /\ e.args = calls[Len(calls)].args
               /\ mp_func(e.task).checks_null => e.end = calls[Len(calls)].end

NumMarked == Cardinality({T \in ManyTypes : perm_ms_index[T] # 0})

\* C14, as stated: marking up to BIT_N = 128 distinct types succeeds; the
\* capacity assertion fails only when more than 128 were marked.
C14_Capacity_AsStated == perm_fault => NumMarked > BIT_N

\* C14, amended: marking up to BIT_N - 1 = 127 distinct types succeeds and
\* sets their bits; the capacity assertion fails when the 128th distinct
\* type is marked, whose identity BIT_N is not a bit of the sets.
C14_Capacity ==
  /\ NumMarked < BIT_N => ~perm_fault
  /\ NumMarked >= BIT_N => perm_fault /\ NumMarked = BIT_N
  /\ \A p \in PermIds :
       perms[p].m_read_permission \cup perms[p].m_write_permission
         \subseteq 1..(BIT_N - 1)
  /\ \A T \in ManyTypes :
       (perm_ms_index[T] # 0 /\ perm_ms_index[T] < BIT_N) =>
         \E p \in PermIds :
           perm_ms_index[T] \in
             perms[p].m_read_permission \cup perms[p].m_write_permission

\* 127 types were marked and have their bits; the marking of the 128th
\* failed the assertion.
C14_Witness ==
  /\ perm_fault
  /\ NumMarked = BIT_N
  /\ Cardinality(UNION {perms[p].m_read_permission \cup
                          perms[p].m_write_permission : p \in PermIds}) = BIT_N - 1

\* --------------------------------------------------- claims: no memory left

\* C15: when the allocator cannot give the memory set or emplace asks for,
\* the call reports the failure (it returns, and returns null) and leaves
\* the registry as it was: nothing is appended to the owned values and the
\* slot of T keeps its pointer.
C15_AllocFailureAtomic ==
  (failed.on # "none" /\ failed.at = n_ops) =>
    /\ failed.end = "returned"
    /\ failed.ret = NULL
    /\ regs[failed.on].m_resources = failed.before.m_resources
    /\ \A T \in Types :
         get_ptr(regs[failed.on], res_ms_index, T) =
           get_ptr(failed.before, res_ms_index, T)

\* ----------------------------------------------------- claims: identities

\* What a step does to one identity space: ms, the identities of the
\* types, and index, the counter.
IdentityStep(ms, index, ms1, index1) ==
  /\ \A T \in Types :
       /\ ms[T] # 0 => ms1[T] = ms[T]
       /\ (ms[T] = 0 /\ ms1[T] # 0) => (ms1[T] = index + 1 /\ index1 = index + 1)
  /\ \A T, U \in Types : (T # U /\ ms1[T] # 0) => ms1[T] # ms1[U]
  /\ {ms1[T] : T \in Types} \ {0} = 1..index1

\* A step assigns identities in one space at most, and only to a type it
\* registers (marks).
IdentitiesStep ==
  /\ IdentityStep(res_ms_index, res_index, res_ms_index', res_index')
  /\ IdentityStep(perm_ms_index, perm_index, perm_ms_index', perm_index')
  /\ <<res_ms_index, res_index>>' = <<res_ms_index, res_index>>
       \/ <<perm_ms_index, perm_index>>' = <<perm_ms_index, perm_index>>
  /\ \A T \in Types :
       /\ res_ms_index'[T] # res_ms_index[T] =>
            \E r \in RegIds :
              /\ last_reg'[r][T] # last_reg[r][T]
              /\ get_ptr(regs'[r], res_ms_index', T) = last_reg'[r][T]
       /\ perm_ms_index'[T] # perm_ms_index[T] =>
            \E p \in PermIds :
              /\ perms'[p] # perms[p]
              /\ perm_ms_index'[T] \in perms'[p].m_read_permission \cup
                                        perms'[p].m_write_permission

\* C16: in each identity space (the registry's and the permission's, with
\* their own counters) the identity of a type is 0 until its first
\* registration (marking), is then the next unused integer, from 1 on,
\* never changes afterwards and is never the identity of another type; an
\* identity given in one space gives or changes none in the other.
C16_Identities == [][IdentitiesStep]_vars

\* T1 is 1 for the permissions and 2 for the registries, T2 the reverse.
C16_Witness ==
  /\ perm_ms_index[1] = 1 /\ perm_ms_index[2] = 2
  /\ res_ms_index[1] = 2 /\ res_ms_index[2] = 1
  /\ perm_index = 2 /\ res_index = 2

\* ------------------------------------------- claims: permission of a binding

\* What a step leaves of the permission of the bindings made before it.
PermissionStep ==
  \A b \in TaskIds :
    tasks[b].made =>
      /\ tasks'[b].made
      /\ permission(b)' = permission(b)
      /\ ReadTypes(permission(b))' = ReadTypes(permission(b))
      /\ WriteTypes(permission(b))' = WriteTypes(permission(b))

\* C17: the permission of a binding is computed when the binding is made
\* and never changes: permission() gives the same read and write sets
\* before and after every exec call, every registration, move and
\* destruction of a registry, and every later make_task_func.
C17_PermissionImmutable == [][PermissionStep]_vars

\* task1 binds f(T1*); since it was made, task2 was made over other types,
\* an exec call returned, a registry was moved from and one was destroyed:
\* task1 still reads and writes T1 only.
C17_Witness ==
  /\ tasks["task1"].made /\ tasks["task1"].args = <<Param(1, FALSE)>>
  /\ tasks["task2"].made
  /\ tasks["task2"].args = <<Param(1, TRUE), Param(2, FALSE)>>
  /\ perm_ms_index[1] = 1 /\ perm_ms_index[2] = 2
  /\ \E k \in DOMAIN calls : calls[k].task = "task1" /\ calls[k].end = "returned"
  /\ \E r \in RegIds : moved_from[r] = "other"
  /\ \E r \in RegIds : regs[r].life = "dead"
  /\ ReadTypes(permission("task1")) = {1}
  /\ WriteTypes(permission("task1")) = {1}

\* ------------------------------------------------ claims: missing resource

\* The exec calls that passed null for a parameter.
NullCalls == {k \in DOMAIN calls : \E i \in DOMAIN calls[k].args : calls[k].args[i] = NULL}

C19_NoCollision ==
  \A T, U \in Types :
    T # U =>
      /\ res_ms_index[T] # 0 => res_ms_index[T] # res_ms_index[U]
      /\ perm_ms_index[T] # 0 => perm_ms_index[T] # perm_ms_index[U]

\* -------------------------------------------------------- claims: queries

\* What a query leaves behind, and what it returns for a type that was
\* never registered (marked).
QueryStep ==
  ret'.at # ret.at =>
    /\ regs' = regs
    /\ perms' = perms
    /\ tasks' = tasks
    /\ res_ms_index' = res_ms_index /\ res_index' = res_index
    /\ perm_ms_index' = perm_ms_index /\ perm_index' = perm_index
    /\ destroyed' = destroyed
    /\ ret'.op = "get_ptr" =>
         /\ ret'.val = get_ptr(regs'[ret'.on], res_ms_index', ret'.type)
         /\ (last_reg[ret'.on][ret'.type] = None => ret'.val = NULL)
    /\ ret'.op \in {"test_read_permission", "test_write_permission"} =>
         (perm_ms_index[ret'.type] = 0 => ret'.val = FALSE)

\* C20: get_ptr<T>(), test_read_permission<T>() and
\* test_write_permission<T>() change nothing: the lookup table, the owned
\* values, both bit sets, the identity of every type and both counters are
\* after the query what they were before it, also when T was never
\* registered or marked; no identity is given by a query, and the
\* permission queries return false for such a T.
C20_QueriesMutateNothing == [][QueryStep]_vars

\* r1 holds a T1; get_ptr<T2>() on it returned null and T2 still has no
\* identity in the registries' space.
C20_Witness ==
  /\ ret.op = "get_ptr" /\ ret.on = "r1" /\ ret.type = 2
  /\ ret.val = NULL
  /\ last_reg["r1"][1] # None
  /\ res_ms_index[2] = 0
  /\ res_index = 1
  /\ Len(regs["r1"].m_pointers) = 2

\* ------------------------------------------------------ claims: ownership

\* The values the program constructed so far: every Resource<T> that set or
\* emplace allocated.
Constructed == {Resource(T, id) : T \in Types, id \in 1..n_values}

\* How many entries of r's m_resources are v.
TimesListed(r, v) ==
  Cardinality({i \in DOMAIN regs[r].m_resources : regs[r].m_resources[i] = v})

\* The registries whose m_resources lists v.
Owners(v) == {r \in RegIds : TimesListed(r, v) > 0}

\* C21: whatever set, emplace, set_ptr, move construction, move assignment
\* (also of a registry to itself), swap and destruction were applied, every
\* value a registry constructed is, until it is destroyed, listed once by
\* exactly one registry, which is live; it is destroyed once, never while a
\* registry lists it, and it has been destroyed when no registry lists it;
\* nothing but constructed values is ever destroyed, so no object lent
\* through set_ptr is.
C21_ExclusiveOwnership ==
  /\ \A id \in 1..n_values :
       \E T \in Types :
         LET v == Resource(T, id)
         IN /\ TimesDestroyed(v) <= 1
            /\ Cardinality(Owners(v)) <= 1
            /\ \A r \in Owners(v) :
                 /\ regs[r].life = "live"
                 /\ TimesListed(r, v) = 1
                 /\ TimesDestroyed(v) = 0
            /\ Owners(v) = {} => TimesDestroyed(v) = 1
  /\ \A i \in DOMAIN destroyed : destroyed[i].val \in Constructed
  /\ \A r \in RegIds :
       \A i \in DOMAIN regs[r].m_resources :
         regs[r].m_resources[i] \in Constructed
  /\ \A r \in RegIds :
       regs[r].life # "live" => regs[r].m_resources = <<>>

\* r1 and r2 each constructed a value and one object was lent; r2 was
\* move-assigned from r1, which destroyed r2's value; both registries were
\* then destroyed, r2 destroying the value it took over.
C21_Witness ==
  /\ regs["r1"].life = "dead" /\ regs["r2"].life = "dead"
  /\ n_values = 2 /\ n_ops = 3
  /\ Len(destroyed) = 2
  /\ destroyed[1].by = "tmp"
  /\ destroyed[2].by = "r2"
  /\ moved_from["r1"] = "other"

\* ------------------------------------------- claims: derived permissions

\* The tasks make_task_func has built.
Made == {b \in TaskIds : tasks[b].made}

\* (a.read & b.write) | (a.write & b.read) has a bit set.
ReadWriteOverlap(a, b) ==
  (a.m_read_permission \cap b.m_write_permission)
    \cup (a.m_write_permission \cap b.m_read_permission) # {}

\* C22: the permission make_permission derives for a task has every write
\* bit also set as a read bit and bit 0 set in neither set; hence two
\* derived permissions conflict exactly when a read of one meets a write
\* of the other, and a derived permission conflicts with itself exactly
\* when it has a write bit.
C22_DerivedPermissions ==
  \A a, b \in Made :
    /\ permission(a).m_write_permission \subseteq permission(a).m_read_permission
    /\ 0 \notin permission(a).m_read_permission
    /\ 0 \notin permission(a).m_write_permission
    /\ is_conflict(permission(a), permission(b))
         <=> ReadWriteOverlap(permission(a), permission(b))
    /\ is_conflict(permission(a), permission(a))
         <=> permission(a).m_write_permission # {}

\* task1 reads two types and writes one of them, task2 only reads that
\* one: they conflict, task1 conflicts with itself and task2 does not.
C22_Witness ==
  /\ tasks["task1"].made /\ tasks["task2"].made
  /\ permission("task1").m_write_permission # {}
  /\ permission("task1").m_write_permission
       # permission("task1").m_read_permission
  /\ permission("task2").m_write_permission = {}
  /\ is_conflict(permission("task1"), permission("task2"))
  /\ is_conflict(permission("task1"), permission("task1"))
  /\ ~is_conflict(permission("task2"), permission("task2"))

====
